---- MODULE Spec2Model ----
(***************************************************************************)
(* State machine of automerge.doc.Doc (src/automerge/doc.py): the frontend *)
(* document controller with its optimistic fork, in-flight queue, counters *)
(* and patch reconciliation.                                               *)
(*                                                                         *)
(* Python objects are modelled by a heap: root_obj, optimistic_root_obj    *)
(* and the Context's active object are references into it, so aliasing is  *)
(* visible.  A Map is a function from the keys it holds to their values.   *)
(* An attribute that __init__ never sets in the current mode has the value *)
(* NoAttr; reading it raises AttributeError.                               *)
(***************************************************************************)
EXTENDS Integers, Sequences, FiniteSets, TLC

VARIABLES
    backend,                  \* self.backend, as its truth value
    local_bin_changes,        \* self.local_bin_changes (integrated mode only)
    local_changes,            \* self.local_changes (split mode only)
    in_flight_local_changes,  \* self.in_flight_local_changes (split mode only)
    optimistic_root_obj,      \* self.optimistic_root_obj (split mode only)
    ctx,                      \* self.ctx
    seq,                      \* self.seq
    max_op,                   \* self.max_op
    root_obj,                 \* self.root_obj
    heap,                     \* the Map objects that are referenced
    patched,                  \* whether apply_patch was ever called from outside
    echoed,                   \* the seqs of the own-actor patches apply_patch accepted
    pc                        \* "ctor": __init__ at line 58; "idle"; "tx": inside
                              \* the with block; "dead": __init__ raised

vars == <<backend, local_bin_changes, local_changes, in_flight_local_changes,
          optimistic_root_obj, ctx, seq, max_op, root_obj, heap, patched,
          echoed, pc>>

----------------------------------------------------------------------------
(* Bounds of the model *)

\* seq is capped: no transaction begins once seq has reached MaxSeq
MaxSeq == 2
\* a transaction records at most MaxOps writes
MaxOps == 1

Keys == {"x"}
\* values written by local transactions, values carried by patch diffs
LocalValues == {"a"}
DiffValues == {"b"}
\* the fields of the patches that arrive
PatchSeqs == {1, 2, 3}
PatchMaxOps == {0, 3}
ClockSeqs == {2}

ObjIds == {"o1", "o2", "o3", "o4"}

----------------------------------------------------------------------------
(* Constants of the program *)

ActorId == "self"
OtherActor == "other"
None == "None"
NoAttr == "NoAttr"
NoExc == "NoExc"
NoCtx == [none |-> TRUE]
NoChange == [none |-> TRUE]
EmptyMap == [k \in {} |-> "a"]

----------------------------------------------------------------------------
(* The Doc object as a record, so that methods compose.  Beside the fields  *)
(* of self it holds the outcome of the call: change, the Change __exit__    *)
(* built, and exc, the exception the call raised.                           *)

Self ==
    [backend |-> backend,
     local_bin_changes |-> local_bin_changes,
     local_changes |-> local_changes,
     in_flight_local_changes |-> in_flight_local_changes,
     optimistic_root_obj |-> optimistic_root_obj,
     ctx |-> ctx,
     seq |-> seq,
     max_op |-> max_op,
     root_obj |-> root_obj,
     heap |-> heap,
     change |-> NoChange,
     exc |-> NoExc]

\* references held by the Doc and its Context
Live(s) ==
    {s.root_obj}
    \cup (IF s.optimistic_root_obj \in ObjIds THEN {s.optimistic_root_obj} ELSE {})
    \cup (IF s.ctx = NoCtx THEN {} ELSE {s.ctx.obj})

\* objects nothing references are freed
Collect(s) == [s EXCEPT !.heap = [o \in Live(s) |-> s.heap[o]]]

Store(s) ==
    \E t \in {Collect(s)} :
    /\ backend' = t.backend
    /\ local_bin_changes' = t.local_bin_changes
    /\ local_changes' = t.local_changes
    /\ in_flight_local_changes' = t.in_flight_local_changes
    /\ optimistic_root_obj' = t.optimistic_root_obj
    /\ ctx' = t.ctx
    /\ seq' = t.seq
    /\ max_op' = t.max_op
    /\ root_obj' = t.root_obj
    /\ heap' = t.heap

Raise(s, e) == [s EXCEPT !.exc = e]

\* a new object holding content m
Fresh(s) == CHOOSE o \in ObjIds : o \notin DOMAIN s.heap
Alloc(s, m) == [o \in DOMAIN s.heap \cup {Fresh(s)} |->
                   IF o = Fresh(s) THEN m ELSE s.heap[o]]

----------------------------------------------------------------------------
(* Collaborators outside doc.py: the Map container, deepcopy, the merge of  *)
(* a diff tree into a state, and the recording Context                      *)

\* Map.__len__
MapLen(m) == Cardinality(DOMAIN m)

\* truth value of a reference: None is false, a Map is true iff it holds a key
Truthy(s, ref) == ref \in ObjIds /\ MapLen(s.heap[ref]) /= 0

\* apply_patch.apply_patch(state, diffs): a new state, the argument untouched
merge(m, diffs) ==
    [k \in DOMAIN m \cup DOMAIN diffs |->
        IF k \in DOMAIN diffs THEN diffs[k] ELSE m[k]]

\* Context(max_op, actor_id, active_obj)
Context(mo, actor, obj) ==
    [max_op |-> mo, actor_id |-> actor, ops |-> <<>>, obj |-> obj]

\* d[k] = v on the MapProxy: the Context records one op and applies the write
\* to its active object at once
ctx_setitem(s, k, v) ==
    [s EXCEPT
        !.ctx.ops = Append(@, [action |-> "set", key |-> k, value |-> v]),
        !.heap[s.ctx.obj] = merge(@, [kk \in {k} |-> v])]

----------------------------------------------------------------------------
(* Patches, as the wire shape allows them *)

Clocks == {EmptyMap} \cup {[a \in {ActorId} |-> n] : n \in ClockSeqs}
Diffs == {EmptyMap} \cup {[kk \in {k} |-> v] : k \in Keys, v \in DiffValues}

PatchBodies == [maxOp : PatchMaxOps, clock : Clocks, diffs : Diffs]

Patches ==
    PatchBodies
    \cup [actorId : {OtherActor}, seq : {1},
          maxOp : PatchMaxOps, clock : Clocks, diffs : Diffs]
    \cup [actorId : {ActorId},
          maxOp : PatchMaxOps, clock : Clocks, diffs : Diffs]
    \cup [actorId : {ActorId}, seq : PatchSeqs,
          maxOp : PatchMaxOps, clock : Clocks, diffs : Diffs]

\* "actorId" in patch and patch["actorId"] == self.actor_id
IsOwn(patch) == "actorId" \in DOMAIN patch /\ patch.actorId = ActorId

----------------------------------------------------------------------------
(* Reads, lines 98-115 *)

get_active_root_obj(s) ==
    IF ~s.backend /\ Truthy(s, s.optimistic_root_obj)
    THEN s.optimistic_root_obj
    ELSE s.root_obj

\* Map.__getitem__: the value, or KeyError
MapGet(m, key) ==
    IF key \in DOMAIN m THEN [exc |-> NoExc, value |-> m[key]]
    ELSE [exc |-> "KeyError"]

\* lines 103-104
__getitem__(s, key) == MapGet(s.heap[get_active_root_obj(s)], key)

\* lines 111-112: the keys iterated
__iter__(s) == DOMAIN s.heap[get_active_root_obj(s)]

\* lines 114-115
__len__(s) == MapLen(s.heap[get_active_root_obj(s)])

----------------------------------------------------------------------------
(* Direct mutation of the document, lines 106-109 and 117-120 *)

\* faulty variant: the key is removed from the object reads resolve to
delitem_deletes(s, key) ==
    [s EXCEPT !.heap[get_active_root_obj(s)] =
                  [k \in DOMAIN @ \ {key} |-> @[k]]]

__delitem__(s, key) == Raise(s, "Exception")

__setitem__(s, key, val) == Raise(s, "Exception")

----------------------------------------------------------------------------
(* Doc.apply_patch, lines 63-90 *)

\* faulty variant: the head is popped before the seq is compared
apply_patch_own_pop_first(s, patch) ==
    IF s.backend THEN Raise(s, "AttributeError")
    ELSE IF s.in_flight_local_changes = <<>> THEN Raise(s, "IndexError")
    ELSE IF "seq" \notin DOMAIN patch THEN Raise(s, "KeyError")
    ELSE LET q == Tail(s.in_flight_local_changes)
             s1 == [s EXCEPT !.in_flight_local_changes = q,
                             !.optimistic_root_obj =
                                 IF Len(q) = 0 THEN None ELSE @]
         IN  IF patch.seq /= Head(s.in_flight_local_changes)
             THEN Raise(s1, "OutOfOrderPatch")
             ELSE s1

\* faulty variant: the fork is kept when the queue drains
apply_patch_own_keeps_fork(s, patch) ==
    IF s.backend THEN Raise(s, "AttributeError")
    ELSE IF s.in_flight_local_changes = <<>> THEN Raise(s, "IndexError")
    ELSE IF "seq" \notin DOMAIN patch THEN Raise(s, "KeyError")
    ELSE IF patch.seq /= Head(s.in_flight_local_changes)
         THEN Raise(s, "OutOfOrderPatch")
    ELSE [s EXCEPT !.in_flight_local_changes = Tail(@)]

\* faulty variant: with nothing in flight the patch is taken as a remote one
apply_patch_own_lenient(s, patch) ==
    IF s.backend THEN s
    ELSE IF s.in_flight_local_changes = <<>> THEN s
    ELSE IF "seq" \notin DOMAIN patch THEN Raise(s, "KeyError")
    ELSE IF patch.seq /= Head(s.in_flight_local_changes)
         THEN Raise(s, "OutOfOrderPatch")
    ELSE LET q == Tail(s.in_flight_local_changes) IN
         [s EXCEPT !.in_flight_local_changes = q,
                   !.optimistic_root_obj = IF Len(q) = 0 THEN None ELSE @]

\* faulty variant: pop() takes the newest entry, not the head
apply_patch_own_pop_right(s, patch) ==
    IF s.backend THEN Raise(s, "AttributeError")
    ELSE IF s.in_flight_local_changes = <<>> THEN Raise(s, "IndexError")
    ELSE IF "seq" \notin DOMAIN patch THEN Raise(s, "KeyError")
    ELSE IF patch.seq /= Head(s.in_flight_local_changes)
         THEN Raise(s, "OutOfOrderPatch")
    ELSE LET q == SubSeq(s.in_flight_local_changes, 1,
                         Len(s.in_flight_local_changes) - 1) IN
         [s EXCEPT !.in_flight_local_changes = q,
                   !.optimistic_root_obj = IF Len(q) = 0 THEN None ELSE @]

\* faulty variant: the matched head stays in the queue
apply_patch_own_no_pop(s, patch) ==
    IF s.backend THEN Raise(s, "AttributeError")
    ELSE IF s.in_flight_local_changes = <<>> THEN Raise(s, "IndexError")
    ELSE IF "seq" \notin DOMAIN patch THEN Raise(s, "KeyError")
    ELSE IF patch.seq /= Head(s.in_flight_local_changes)
         THEN Raise(s, "OutOfOrderPatch")
    ELSE s

\* lines 64-74: the in-flight check of a patch that echoes a local change
apply_patch_own(s, patch) ==
    IF s.backend THEN Raise(s, "AttributeError")
    ELSE IF s.in_flight_local_changes = <<>> THEN Raise(s, "IndexError")
    ELSE IF "seq" \notin DOMAIN patch THEN Raise(s, "KeyError")
    ELSE IF patch.seq /= Head(s.in_flight_local_changes)
         THEN Raise(s, "OutOfOrderPatch")
    ELSE LET q == Tail(s.in_flight_local_changes) IN
         [s EXCEPT !.in_flight_local_changes = q,
                   !.optimistic_root_obj = IF Len(q) = 0 THEN None ELSE @]

\* faulty variant: the patch's maxOp is adopted whether or not a fork is pending
apply_patch_max_op_always(s, patch) ==
    IF s.optimistic_root_obj = NoAttr THEN Raise(s, "AttributeError")
    ELSE [s EXCEPT !.max_op = patch.maxOp]

\* lines 76-80: adopt the patch's maxOp when no fork is pending
apply_patch_max_op(s, patch) ==
    IF s.optimistic_root_obj = NoAttr THEN Raise(s, "AttributeError")
    ELSE IF s.optimistic_root_obj = None
         THEN [s EXCEPT !.max_op = patch.maxOp]
    ELSE s

\* faulty variant: seq is set to the clock's entry without comparing
apply_patch_clock_unguarded(s, patch) ==
    IF ActorId \in DOMAIN patch.clock
    THEN [s EXCEPT !.seq = patch.clock[ActorId]]
    ELSE s

\* lines 82-86: raise seq to the clock's entry for this actor
apply_patch_clock(s, patch) ==
    IF ActorId \in DOMAIN patch.clock /\ patch.clock[ActorId] > s.seq
    THEN [s EXCEPT !.seq = patch.clock[ActorId]]
    ELSE s

\* faulty variant: the diffs go to the object reads resolve to
apply_patch_diffs_active(s, patch) ==
    [s EXCEPT !.heap[get_active_root_obj(s)] = merge(@, patch.diffs)]

\* line 90: the diffs go to the true state
apply_patch_diffs(s, patch) ==
    LET o == Fresh(s) IN
    [s EXCEPT !.heap = Alloc(s, merge(s.heap[s.root_obj], patch.diffs)),
              !.root_obj = o]

apply_patch(s, patch) ==
    LET s1 == IF IsOwn(patch) THEN apply_patch_own(s, patch) ELSE s IN
    IF s1.exc /= NoExc THEN s1
    ELSE LET s2 == apply_patch_max_op(s1, patch) IN
         IF s2.exc /= NoExc THEN s2
         ELSE apply_patch_diffs(apply_patch_clock(s2, patch), patch)

----------------------------------------------------------------------------
(* The change block, lines 122-169 *)

\* faulty variant: the fork is the canonical object itself, not a copy
deepcopy_root_alias(s) == [s EXCEPT !.optimistic_root_obj = s.root_obj]

\* deepcopy(self.root_obj)
deepcopy_root(s) ==
    [s EXCEPT !.heap = Alloc(s, s.heap[s.root_obj]),
              !.optimistic_root_obj = Fresh(s)]

\* lines 123-143: the object the change block writes to
active_obj(s) ==
    IF s.backend THEN s
    ELSE IF ~Truthy(s, s.optimistic_root_obj) THEN deepcopy_root(s)
    ELSE s

__enter__(s) ==
    LET s1 == active_obj(s)
        obj == IF s1.backend THEN s1.root_obj ELSE s1.optimistic_root_obj
    IN  [s1 EXCEPT !.ctx = Context(s1.max_op, ActorId, obj)]

\* faulty variant: startOp is the current maxOp, not the next op
Change_start_at_max_op(s) ==
    [actor |-> ActorId,
     seq |-> s.seq,
     startOp |-> s.max_op,
     deps |-> <<>>,
     ops |-> s.ctx.ops,
     time |-> 12345,
     message |-> ""]

\* lines 149-158
Change(s) ==
    [actor |-> ActorId,
     seq |-> s.seq,
     startOp |-> s.max_op + 1,
     deps |-> <<>>,
     ops |-> s.ctx.ops,
     time |-> 12345,
     message |-> ""]

\* the backend's encoding of a change
Encoded(ch) == [bin |-> ch]

\* lines 163-166: the integrated backend answers with patch
exit_integrated(s, patch) ==
    LET s1 == apply_patch(s, patch) IN
    IF s1.exc /= NoExc THEN s1
    ELSE [s1 EXCEPT !.local_bin_changes = Append(@, Encoded(s.change))]

\* faulty variant: the seq is pushed at the front of the in-flight queue
exit_split_appendleft(s) ==
    [s EXCEPT !.local_changes = Append(@, s.change),
              !.in_flight_local_changes = <<s.change.seq>> \o @]

\* lines 167-169
exit_split(s) ==
    [s EXCEPT !.local_changes = Append(@, s.change),
              !.in_flight_local_changes = Append(@, s.change.seq)]

__exit__(s, patch) ==
    LET s1 == [s EXCEPT !.seq = @ + 1]
        s2 == [s1 EXCEPT !.change = Change(s1)]
        s3 == [s2 EXCEPT !.max_op = @ + Len(s2.ctx.ops)]
    IN  IF s3.backend THEN exit_integrated(s3, patch) ELSE exit_split(s3)

----------------------------------------------------------------------------
(* Doc.__init__, lines 35-61 *)

\* initial_data: None, or a dict
Seeds == {EmptyMap} \cup {[kk \in {k} |-> v] : k \in {"x"}, v \in LocalValues}

\* lines 58-61: the seed is written in one change block
__init__(s, initial_data, patch) ==
    IF MapLen(initial_data) = 0 THEN s
    ELSE LET k == CHOOSE kk \in DOMAIN initial_data : TRUE IN
         __exit__(ctx_setitem(__enter__(s), k, initial_data[k]), patch)

----------------------------------------------------------------------------
(* The state machine *)

\* the fields as lines 35-57 leave them
Init ==
    /\ backend \in BOOLEAN
    /\ local_bin_changes = IF backend THEN <<>> ELSE NoAttr
    /\ local_changes = IF backend THEN NoAttr ELSE <<>>
    /\ in_flight_local_changes = IF backend THEN NoAttr ELSE <<>>
    /\ optimistic_root_obj = IF backend THEN NoAttr ELSE None
    /\ ctx = NoCtx
    /\ seq = 0
    /\ max_op = 0
    /\ root_obj = "o1"
    /\ heap = [o \in {"o1"} |-> EmptyMap]
    /\ patched = FALSE
    /\ echoed = {}
    /\ pc = "ctor"

\* the answers an integrated backend may give; without a backend none is asked
Answers ==
    IF backend THEN Patches
    ELSE {[maxOp |-> 0, clock |-> EmptyMap, diffs |-> EmptyMap]}

Construct ==
    /\ pc = "ctor"
    /\ \E initial_data \in Seeds, patch \in Answers :
          \E s \in {__init__(Self, initial_data, patch)} :
          /\ Store(s)
          /\ pc' = IF s.exc = NoExc THEN "idle" ELSE "dead"
    /\ UNCHANGED <<patched, echoed>>

Enter ==
    /\ pc = "idle"
    /\ seq < MaxSeq
    /\ Store(__enter__(Self))
    /\ pc' = "tx"
    /\ UNCHANGED <<patched, echoed>>

Write ==
    /\ pc = "tx"
    /\ Len(ctx.ops) < MaxOps
    /\ \E k \in Keys, v \in LocalValues : Store(ctx_setitem(Self, k, v))
    /\ UNCHANGED <<patched, echoed, pc>>

Exit ==
    /\ pc = "tx"
    /\ pc' = "idle"
    /\ UNCHANGED <<patched, echoed>>
    /\ \E patch \in Answers :
          \E t \in {__exit__(Self, patch)} : Store(t)

ApplyPatch ==
    /\ pc \in {"idle", "tx"}
    /\ \E patch \in Patches :
          \E t \in {apply_patch(Self, patch)} :
              /\ Store(t)
              /\ echoed' = IF IsOwn(patch) /\ t.exc = NoExc
                            THEN echoed \cup {patch.seq}
                            ELSE echoed
    /\ patched' = TRUE
    /\ UNCHANGED pc

\* doc[key], len(doc), iter(doc): nothing is assigned
Read ==
    /\ pc \in {"idle", "tx"}
    /\ \E key \in Keys :
          /\ __getitem__(Self, key).exc \in {NoExc, "KeyError"}
          /\ __len__(Self) = Cardinality(__iter__(Self))
    /\ UNCHANGED vars

\* doc[key] = val outside the MapProxy
SetItem ==
    /\ pc \in {"idle", "tx"}
    /\ \E key \in Keys, val \in LocalValues :
          Store(__setitem__(Self, key, val))
    /\ UNCHANGED <<patched, echoed, pc>>

\* del doc[key] outside the MapProxy
DelItem ==
    /\ pc \in {"idle", "tx"}
    /\ \E key \in Keys : Store(__delitem__(Self, key))
    /\ UNCHANGED <<patched, echoed, pc>>

Next ==
    \/ Construct \/ Enter \/ Write \/ Exit \/ ApplyPatch
    \/ Read \/ SetItem \/ DelItem

Spec == Init /\ [][Next]_vars

\* apply_patch called with the patch the backend sends for the oldest change in
\* flight: this actor's id and the seq at the head of the queue, with any
\* maxOp, clock and diffs
Echo ==
    /\ pc \in {"idle", "tx"}
    /\ ~backend
    /\ in_flight_local_changes /= <<>>
    /\ patched' = TRUE
    /\ echoed' = echoed \cup {Head(in_flight_local_changes)}
    /\ UNCHANGED pc
    /\ \E patch \in Patches :
          /\ IsOwn(patch)
          /\ "seq" \in DOMAIN patch
          /\ patch.seq = Head(in_flight_local_changes)
          /\ \E t \in {apply_patch(Self, patch)} : Store(t)

\* apply_patch called with a patch that does not carry this actor's id
Remote ==
    /\ pc \in {"idle", "tx"}
    /\ \E patch \in Patches :
          /\ ~IsOwn(patch)
          /\ \E t \in {apply_patch(Self, patch)} : Store(t)
    /\ patched' = TRUE
    /\ UNCHANGED <<echoed, pc>>

\* the calls of a backend that echoes the changes in flight in the order of
\* their submission, with the patches of other actors in between
LiveNext ==
    \/ Construct \/ Enter \/ Write \/ Exit
    \/ Echo \/ Remote

\* a with-block that was entered runs to its __exit__, and the backend
\* sends the echo of the change at the head of the queue
LiveSpec == Init /\ [][LiveNext]_vars /\ WF_vars(Exit) /\ WF_vars(Echo)

----------------------------------------------------------------------------
(* Properties *)

Split == ~backend
Constructed == pc \in {"idle", "tx"}
ForkPresent == optimistic_root_obj \in ObjIds

\* the content of the object a reference names
Content(s, ref) == s.heap[ref]

\* C1: in split mode, whenever no transaction is open, the fork is present
\* if and only if the in-flight queue is non-empty.
C1_ForkIffInFlight ==
    (Split /\ pc = "idle") =>
        (ForkPresent <=> in_flight_local_changes /= <<>>)

\* C2: in split mode with a non-empty queue, apply_patch with an own-actor
\* patch whose seq differs from the queue head raises, and the queue, the
\* fork, canonical state, seq and maxOp are as before the call.
C2_OutOfOrderRejected ==
    (Split /\ Constructed /\ in_flight_local_changes /= <<>>) =>
        \A patch \in Patches :
            (/\ IsOwn(patch)
             /\ "seq" \in DOMAIN patch
             /\ patch.seq /= Head(in_flight_local_changes)) =>
                \A t \in {apply_patch(Self, patch)} :
                    /\ t.exc /= NoExc
                    /\ t.in_flight_local_changes = in_flight_local_changes
                    /\ t.optimistic_root_obj = optimistic_root_obj
                    /\ t.root_obj = root_obj
                    /\ t.heap = heap
                    /\ t.seq = seq
                    /\ t.max_op = max_op

\* an out-of-order echo has been refused while two changes are in flight
C2_Witness ==
    /\ Split /\ Constructed /\ patched
    /\ Len(in_flight_local_changes) = 2
    /\ \E patch \in Patches :
          /\ IsOwn(patch) /\ "seq" \in DOMAIN patch
          /\ patch.seq = in_flight_local_changes[2]
          /\ apply_patch(Self, patch).exc = "OutOfOrderPatch"

\* C3: in split mode, apply_patch with an own-actor patch whose seq equals
\* the queue head removes exactly the head and keeps the rest in order; if
\* the queue is then empty the fork is absent, and while the fork is absent
\* reads resolve to canonical state.
C3_EchoPopsHead ==
    /\ (Split /\ Constructed /\ in_flight_local_changes /= <<>>) =>
          \A patch \in Patches :
              (/\ IsOwn(patch)
               /\ "seq" \in DOMAIN patch
               /\ patch.seq = Head(in_flight_local_changes)) =>
                  \A t \in {apply_patch(Self, patch)} :
                      /\ t.exc = NoExc
                      /\ t.in_flight_local_changes = Tail(in_flight_local_changes)
                      /\ t.in_flight_local_changes = <<>> =>
                            /\ t.optimistic_root_obj = None
                            /\ get_active_root_obj(t) = t.root_obj
    /\ (Split /\ optimistic_root_obj = None) =>
          get_active_root_obj(Self) = root_obj

\* the last in-flight change has been echoed and the fork retired
C3_Witness ==
    /\ Split /\ pc = "idle" /\ patched
    /\ Len(local_changes) = 2
    /\ in_flight_local_changes = <<>>
    /\ optimistic_root_obj = None

\* C4 as claimed: a successful apply_patch sets maxOp to the patch's maxOp
\* if and only if the in-flight queue is empty after the call's pop, and
\* otherwise leaves maxOp unchanged.
C4_MaxOpAdoptedIffQueueEmpty ==
    (Split /\ Constructed) =>
        \A patch \in Patches :
            \A t \in {apply_patch(Self, patch)} :
                t.exc = NoExc =>
                    t.max_op = IF t.in_flight_local_changes = <<>>
                               THEN patch.maxOp
                               ELSE max_op

\* C4 as amended: a successful apply_patch sets maxOp to the patch's maxOp
\* if and only if the fork is absent after the call's pop, and otherwise
\* leaves maxOp unchanged.
C4_MaxOpAdoptedIffNoFork ==
    (Split /\ Constructed) =>
        \A patch \in Patches :
            \A t \in {apply_patch(Self, patch)} :
                t.exc = NoExc =>
                    t.max_op = IF t.optimistic_root_obj = None
                               THEN patch.maxOp
                               ELSE max_op

\* with no fork a patch's maxOp of 3 was adopted, beyond what the single
\* local op had reached
C4_Witness ==
    /\ Split /\ pc = "idle" /\ patched
    /\ optimistic_root_obj = None
    /\ Len(local_changes) = 1
    /\ Len(local_changes[1].ops) = 1
    /\ max_op = 3

\* C5: maxOp never decreases, whatever step is taken and whatever maxOp a
\* patch carries.
C5_MaxOpNeverDecreases == [][max_op' >= max_op]_vars

\* C6: a commit increases seq by exactly 1 and maxOp by exactly the number
\* of recorded ops, and the Change carries the new seq and startOp equal to
\* the pre-commit maxOp plus 1; construction with one seed key and no
\* backend ends with seq = 1, maxOp = 1 and the key readable.
C6_CommitAdvancesCounters ==
    /\ pc = "tx" =>
          \A patch \in Answers :
              \A t \in {__exit__(Self, patch)} :
                  /\ t.seq = seq + 1
                  /\ t.max_op = max_op + Len(ctx.ops)
                  /\ t.change.seq = seq + 1
                  /\ t.change.startOp = max_op + 1
                  /\ t.change.ops = ctx.ops
    /\ (pc = "ctor" /\ Split) =>
          \A initial_data \in Seeds, patch \in Answers :
              MapLen(initial_data) = 1 =>
                  \A t \in {__init__(Self, initial_data, patch)} :
                      /\ t.exc = NoExc
                      /\ t.seq = 1
                      /\ t.max_op = 1
                      /\ Content(t, get_active_root_obj(t)) = initial_data

\* a seeded controller without backend, and a second commit of one op
C6_Witness ==
    /\ Split /\ pc = "idle" /\ ~patched
    /\ seq = 2 /\ max_op = 2
    /\ Len(local_changes) = 2
    /\ local_changes[1].startOp = 1 /\ Len(local_changes[1].ops) = 1
    /\ local_changes[2].startOp = 2 /\ Len(local_changes[2].ops) = 1

\* C7: in split mode, after N >= 1 commits and no apply_patch call, the
\* fork is present, the in-flight queue is <<1, ..., N>> and local_changes
\* holds the N changes in commit order.
C7_PendingBeforeAnyPatch ==
    (Split /\ Constructed /\ ~patched /\ seq >= 1) =>
        /\ ForkPresent
        /\ in_flight_local_changes = [i \in 1..seq |-> i]
        /\ Len(local_changes) = seq
        /\ \A i \in 1..seq : local_changes[i].seq = i
        /\ \A i \in 1..(seq - 1) :
              local_changes[i + 1].startOp =
                  local_changes[i].startOp + Len(local_changes[i].ops)

\* two commits, no patch yet
C7_Witness ==
    /\ Split /\ pc = "idle" /\ ~patched
    /\ in_flight_local_changes = <<1, 2>>
    /\ Len(local_changes) = 2
    /\ ForkPresent

\* C8: apply_patch raises seq to patch.clock[self] only when that value is
\* strictly greater than seq and otherwise leaves seq unchanged, so no
\* patch decreases seq.
C8_ClockNeverLowersSeq ==
    Constructed =>
        \A patch \in Patches :
            \A t \in {apply_patch(Self, patch)} :
                /\ t.seq >= seq
                /\ t.seq = IF /\ t.exc = NoExc
                              /\ ActorId \in DOMAIN patch.clock
                              /\ patch.clock[ActorId] > seq
                           THEN patch.clock[ActorId]
                           ELSE seq

\* a patch's clock raised seq past the one commit made, and a later patch
\* with a lower clock entry is about to be applied
C8_Witness ==
    /\ Split /\ pc = "idle" /\ patched
    /\ Len(local_changes) = 2
    /\ local_changes[2].seq = 3
    /\ seq = 3

\* a call leaves canonical state alone: the same object, with the same content
CanonicalKept(t) ==
    /\ t.root_obj = root_obj
    /\ Content(t, t.root_obj) = Content(Self, root_obj)

\* C9 as claimed: in both modes a write made inside a transaction never
\* changes canonical state, and in split mode the fork and canonical state
\* are never the same object.
C9_CanonicalOnlyByPatch ==
    /\ pc = "tx" =>
          \A k \in Keys, v \in LocalValues :
              CanonicalKept(ctx_setitem(Self, k, v))
    /\ (Split /\ ForkPresent) => optimistic_root_obj /= root_obj

\* C9 as amended: in split mode neither begin, nor a write made inside a
\* transaction, nor commit changes canonical state, the transaction writes
\* to an object other than canonical state, and the fork and canonical
\* state are never the same object; in integrated mode the transaction
\* writes to canonical state itself.
C9_SplitCanonicalOnlyByPatch ==
    /\ (Split /\ pc = "idle") => CanonicalKept(__enter__(Self))
    /\ (Split /\ pc = "tx") =>
          /\ ctx.obj /= root_obj
          /\ \A k \in Keys, v \in LocalValues :
                CanonicalKept(ctx_setitem(Self, k, v))
          /\ \A patch \in Answers : CanonicalKept(__exit__(Self, patch))
    /\ (Split /\ ForkPresent) => optimistic_root_obj /= root_obj
    /\ (backend /\ pc = "tx") => ctx.obj = root_obj

\* a transaction has written to the fork, and canonical state differs from it
C9_Witness ==
    /\ Split /\ pc = "tx"
    /\ Len(ctx.ops) = 1
    /\ ctx.obj = optimistic_root_obj
    /\ Content(Self, optimistic_root_obj) = [k \in {"x"} |-> "a"]
    /\ Content(Self, root_obj) = EmptyMap

\* C10: in split mode, apply_patch with a patch whose actorId is absent or
\* another actor's always succeeds, replaces canonical state by the merge of
\* the patch's diffs into it, and leaves the in-flight queue and the fork
\* (presence and content) unchanged.
C10_RemotePatchMergesCanonical ==
    (Split /\ Constructed) =>
        \A patch \in Patches :
            ~IsOwn(patch) =>
                \A t \in {apply_patch(Self, patch)} :
                    /\ t.exc = NoExc
                    /\ Content(t, t.root_obj) =
                          merge(Content(Self, root_obj), patch.diffs)
                    /\ t.in_flight_local_changes = in_flight_local_changes
                    /\ t.optimistic_root_obj = optimistic_root_obj
                    /\ ForkPresent =>
                          Content(t, optimistic_root_obj) =
                              Content(Self, optimistic_root_obj)

\* a remote diff has reached canonical state while the fork, with a local
\* write in flight, kept its own content
C10_Witness ==
    /\ Split /\ Constructed /\ patched
    /\ in_flight_local_changes = <<1>>
    /\ ForkPresent
    /\ Content(Self, optimistic_root_obj) = [k \in {"x"} |-> "a"]
    /\ Content(Self, root_obj) = [k \in {"x"} |-> "b"]

\* C11: in integrated mode every commit hands the Change to the backend,
\* applies the returned patch to canonical state and appends the encoded
\* change, so that the commit returns with canonical state reflecting the
\* patch and local_bin_changes longer by exactly one entry.
C11_IntegratedCommitApplies ==
    (backend /\ pc = "tx") =>
        \A patch \in Answers :
            \A t \in {__exit__(Self, patch)} :
                /\ t.exc = NoExc
                /\ Content(t, t.root_obj) =
                      merge(Content(Self, root_obj), patch.diffs)
                /\ t.local_bin_changes =
                      Append(local_bin_changes, Encoded(t.change))

\* C12: a commit is all-or-nothing: it either returns with seq, maxOp and
\* the outbox (and in split mode the in-flight queue) updated, or it raises
\* and seq, maxOp, outbox, queue and canonical state are as before.
C12_CommitAllOrNothing ==
    pc = "tx" =>
        \A patch \in Answers :
            \A t \in {__exit__(Self, patch)} :
                IF t.exc = NoExc
                THEN /\ t.seq = seq + 1
                     /\ t.max_op = max_op + Len(ctx.ops)
                     /\ backend =>
                           Len(t.local_bin_changes) = Len(local_bin_changes) + 1
                     /\ Split =>
                           /\ t.local_changes = Append(local_changes, t.change)
                           /\ t.in_flight_local_changes =
                                 Append(in_flight_local_changes, t.seq)
                ELSE /\ t.seq = seq
                     /\ t.max_op = max_op
                     /\ t.local_bin_changes = local_bin_changes
                     /\ t.local_changes = local_changes
                     /\ t.in_flight_local_changes = in_flight_local_changes
                     /\ CanonicalKept(t)

\* the view the claim has reads resolve to
ClaimedView == IF Split /\ ForkPresent THEN optimistic_root_obj ELSE root_obj

\* C13: key lookup, iteration and length read from the fork whenever a fork
\* is present, whatever it holds, and from canonical state only when no
\* fork is present.
C13_ReadsFromForkIfPresent ==
    Constructed =>
        /\ __len__(Self) = MapLen(Content(Self, ClaimedView))
        /\ __iter__(Self) = DOMAIN Content(Self, ClaimedView)
        /\ \A key \in Keys :
              __getitem__(Self, key) = MapGet(Content(Self, ClaimedView), key)

\* every field of self as before the call
AllKept(t) ==
    /\ t.backend = backend
    /\ t.local_bin_changes = local_bin_changes
    /\ t.local_changes = local_changes
    /\ t.in_flight_local_changes = in_flight_local_changes
    /\ t.optimistic_root_obj = optimistic_root_obj
    /\ t.ctx = ctx
    /\ t.seq = seq
    /\ t.max_op = max_op
    /\ t.root_obj = root_obj
    /\ t.heap = heap

\* C14: a write or a delete made directly on the controller raises, for any
\* key and in any reachable state, and leaves canonical state, fork, queue,
\* outbox, seq and maxOp as they were.
C14_DirectMutationRejected ==
    Constructed =>
        \A key \in Keys :
            /\ \A t \in {__delitem__(Self, key)} :
                  t.exc /= NoExc /\ AllKept(t)
            /\ \A val \in LocalValues \cup DiffValues :
                  \A t \in {__setitem__(Self, key, val)} :
                      t.exc /= NoExc /\ AllKept(t)

\* a direct delete of a key the fork holds is refused inside an open
\* transaction with a change in flight
C14_Witness ==
    /\ Split /\ pc = "tx"
    /\ in_flight_local_changes /= <<>>
    /\ "x" \in __iter__(Self)
    /\ __delitem__(Self, "x").exc = "Exception"
    /\ __setitem__(Self, "x", "b").exc = "Exception"

\* C16: in split mode begin clones canonical state only when no fork
\* exists and otherwise writes to the existing fork as it is, whatever it
\* holds, so that begin never brings canonical content into a present fork.
C16_BeginReusesFork ==
    (Split /\ pc = "idle") =>
        \A t \in {__enter__(Self)} :
            /\ t.ctx.obj = t.optimistic_root_obj
            /\ Content(t, t.optimistic_root_obj) =
                  IF ForkPresent THEN Content(Self, optimistic_root_obj)
                  ELSE Content(Self, root_obj)

\* C17: an own-actor patch that arrives while no local change is in flight
\* (empty queue in split mode, or integrated mode) is refused with an error
\* and nothing is mutated.
C17_EchoWithNothingInFlight ==
    (Constructed /\ (backend \/ in_flight_local_changes = <<>>)) =>
        \A patch \in Patches :
            IsOwn(patch) =>
                \A t \in {apply_patch(Self, patch)} :
                    t.exc /= NoExc /\ AllKept(t)

\* the one change made has been echoed, and a second echo of it is refused
C17_Witness ==
    /\ Split /\ pc = "idle" /\ patched
    /\ Len(local_changes) = 1
    /\ in_flight_local_changes = <<>>
    /\ \E patch \in Patches :
          /\ IsOwn(patch) /\ "seq" \in DOMAIN patch
          /\ patch.seq = local_changes[1].seq
          /\ apply_patch(Self, patch).exc = "IndexError"

\* C18: the Change a commit emits has startOp equal to 1 plus the maxOp the
\* transaction's Context was opened with, whatever patches were applied
\* between begin and commit.
C18_StartOpMatchesContext ==
    pc = "tx" =>
        \A patch \in Answers :
            __exit__(Self, patch).change.startOp = ctx.max_op + 1

\* the seqs of the changes in the outbox, in order
OutboxSeqs == [i \in 1..Len(local_changes) |-> local_changes[i].seq]

IsSuffix(q, w) ==
    /\ Len(q) <= Len(w)
    /\ q = SubSeq(w, Len(w) - Len(q) + 1, Len(w))

\* C19: in split mode the in-flight queue is strictly increasing, every
\* entry is at most seq, and the queue is a suffix of the seqs of the
\* changes in local_changes.
C19_QueueIsOutboxSuffix ==
    (Split /\ Constructed) =>
        /\ \A i \in 1..(Len(in_flight_local_changes) - 1) :
              in_flight_local_changes[i] < in_flight_local_changes[i + 1]
        /\ \A i \in 1..Len(in_flight_local_changes) :
              in_flight_local_changes[i] <= seq
        /\ IsSuffix(in_flight_local_changes, OutboxSeqs)

\* the clock raised seq between two commits, the first change is echoed and
\* the second, with seq 3, is in flight
C19_Witness ==
    /\ Split /\ pc = "idle" /\ patched
    /\ OutboxSeqs = <<1, 3>>
    /\ in_flight_local_changes = <<3>>
    /\ seq = 3

\* C20: in split mode, once apply_patch has accepted an own-actor patch with
\* seq s, every later own-actor patch with seq s raises and mutates nothing.
C20_EchoConsumedOnce ==
    (Split /\ Constructed) =>
        \A patch \in Patches :
            (IsOwn(patch) /\ "seq" \in DOMAIN patch /\ patch.seq \in echoed) =>
                \A t \in {apply_patch(Self, patch)} :
                    t.exc /= NoExc /\ AllKept(t)

\* seq 1 has been echoed, seq 2 is in flight, and a second echo of seq 1 is
\* refused as out of order
C20_Witness ==
    /\ Split /\ Constructed
    /\ echoed = {1}
    /\ in_flight_local_changes = <<2>>
    /\ \E patch \in Patches :
          /\ IsOwn(patch) /\ "seq" \in DOMAIN patch /\ patch.seq = 1
          /\ apply_patch(Self, patch).exc = "OutOfOrderPatch"

\* C15: in split mode, when transactions stop beginning and the backend
\* keeps echoing the head of the in-flight queue, the queue is eventually
\* empty and the fork absent, and stays so, whatever other patches are
\* applied in between.
C15_EchoesDrainQueue ==
    <>[](Split => (in_flight_local_changes = <<>> /\ optimistic_root_obj = None))

\* two changes were committed, both were echoed in order, and the queue and
\* the fork are gone
C15_Witness ==
    /\ Split /\ pc = "idle"
    /\ Len(local_changes) = 2
    /\ Cardinality(echoed) = 2
    /\ in_flight_local_changes = <<>>
    /\ optimistic_root_obj = None

====
